---- MODULE Spec2Model ----
(***************************************************************************)
(* Hi-Q (cross-shaped peg solitaire) board and backtracking solver.        *)
(*                                                                         *)
(*   board_manager.py : PegPosition, Board (make_move / undo_last_move /   *)
(*                      can_peg_move)                                      *)
(*   solver.py        : make_next_move (Advance / Backtrack step) and      *)
(*                      get_any_solution (the solve loop)                  *)
(*                                                                         *)
(* The state is one Board object (board, num_pegs, moves) plus the         *)
(* position of the solve loop.  History variables (hist, initial, steps,   *)
(* undone, before, logs, probe) record what the last calls did and         *)
(* returned; they do not influence the program.                            *)
(***************************************************************************)
EXTENDS Integers, Sequences, FiniteSets, TLC

VARIABLES board, num_pegs, moves, err, pc, ret, result, initial, hist, steps, undone,
          before, logs, probe

vars == <<board, num_pegs, moves, err, pc, ret, result, initial, hist, steps, undone,
          before, logs, probe>>

----------------------------------------------------------------------------
(* Program constants                                                       *)

BOARD_ROWS == 7
BOARD_COLUMNS == 7

UP == 0
RIGHT == 1
DOWN == 2
LEFT == 3

Direction == {UP, RIGHT, DOWN, LEFT}

(* Board.max_rows / Board.max_columns are read by solver.py but are not    *)
(* defined by board_manager.py; the grid is 7x7 (rows 0..6, columns 0..6). *)
max_rows == BOARD_ROWS
max_columns == BOARD_COLUMNS

(* Direction.get_next_direction is called by solver.py but not defined by  *)
(* board_manager.py: the next direction in Up < Right < Down < Left, and   *)
(* "exhausted" (None) after Left.                                          *)
None == -1

get_next_direction(d) == IF d = LEFT THEN None ELSE d + 1

----------------------------------------------------------------------------
(* Bounds of the model                                                     *)

\* make_move / undo_last_move called directly: longest log explored
MaxDepth == 3
\* boards handed to the solver other than the fresh one: pegs placed
MaxStartPegs == 4
\* ... on the last StartHoleCount holes of the board, in row-major order
StartHoleCount == 13
\* can_peg_move / get_peg called on Boards up to this many moves from Board()
MaxProbeDepth == 1
\* ... can_peg_move up to this many times in a row with the same arguments
MaxCalls == 2
\* iterations of the solve loop followed in one run
MaxSteps == 40

----------------------------------------------------------------------------
(* PegPosition                                                             *)

Rows == 0 .. (BOARD_ROWS - 1)
Columns == 0 .. (BOARD_COLUMNS - 1)
Coords == Rows \X Columns

\* PegPosition(): peg_present is None
PegPositionNone == [peg_present |-> FALSE, is_empty |-> FALSE, is_valid_position |-> FALSE]

\* PegPosition(peg_present)
PegPosition(peg_present) ==
    [peg_present |-> peg_present, is_empty |-> ~peg_present, is_valid_position |-> TRUE]

add_peg(p) ==
    IF ~p.is_valid_position THEN [cell |-> p, err |-> "ValueError"]
    ELSE IF ~p.is_empty THEN [cell |-> p, err |-> "ValueError"]
    ELSE [cell |-> [p EXCEPT !.peg_present = TRUE, !.is_empty = FALSE], err |-> "none"]

\* a remove_peg that forgets to mark the hole empty
remove_peg_noflag(p) ==
    IF ~p.is_valid_position THEN [cell |-> p, err |-> "ValueError"]
    ELSE IF ~p.peg_present THEN [cell |-> p, err |-> "ValueError"]
    ELSE [cell |-> [p EXCEPT !.peg_present = FALSE], err |-> "none"]

remove_peg(p) ==
    IF ~p.is_valid_position THEN [cell |-> p, err |-> "ValueError"]
    ELSE IF ~p.peg_present THEN [cell |-> p, err |-> "ValueError"]
    ELSE [cell |-> [p EXCEPT !.peg_present = FALSE, !.is_empty = TRUE], err |-> "none"]

----------------------------------------------------------------------------
(* Board construction                                                      *)

InCross(rc) == (rc[1] \in 2 .. 4) \/ (rc[2] \in 2 .. 4)

generate_board ==
    [rc \in Coords |->
        IF rc = <<3, 3>> THEN PegPosition(FALSE)
        ELSE IF InCross(rc) THEN PegPosition(TRUE)
        ELSE PegPositionNone]

count_pegs(b) ==
    Cardinality({rc \in Coords : b[rc].is_valid_position /\ b[rc].peg_present})

\* a board of the same shape with pegs exactly on the holes P
board_with_pegs(P) ==
    [rc \in Coords |->
        IF InCross(rc) THEN PegPosition(rc \in P) ELSE PegPositionNone]

----------------------------------------------------------------------------
(* Coordinates and legality                                                *)

\* <<jump_coords, target_coords, direction>>
generate_jump_and_target_coords(row_index, column_index, direction) ==
    IF direction = UP THEN
        << <<row_index - 1, column_index>>, <<row_index - 2, column_index>>, direction >>
    ELSE IF direction = RIGHT THEN
        << <<row_index, column_index + 1>>, <<row_index, column_index + 2>>, direction >>
    ELSE IF direction = DOWN THEN
        << <<row_index + 1, column_index>>, <<row_index + 2, column_index>>, direction >>
    ELSE
        << <<row_index, column_index - 1>>, <<row_index, column_index - 2>>, direction >>

\* can_peg_move without the check of the peg jumped over
can_peg_move_run_nojump(b, row_index, column_index, direction) ==
    LET co == generate_jump_and_target_coords(row_index, column_index, direction)
        origin == <<row_index, column_index>>
        target_coords == co[2]
    IN  IF \/ target_coords[1] < 0
           \/ target_coords[1] >= BOARD_ROWS
           \/ target_coords[2] < 0
           \/ target_coords[2] >= BOARD_COLUMNS
        THEN [ret |-> FALSE, reads |-> <<>>]
        ELSE IF ~b[origin].is_valid_position \/ ~b[origin].peg_present
        THEN [ret |-> FALSE, reads |-> <<origin>>]
        ELSE IF ~b[target_coords].is_valid_position \/ ~b[target_coords].is_empty
        THEN [ret |-> FALSE, reads |-> <<origin, target_coords>>]
        ELSE [ret |-> TRUE, reads |-> <<origin, target_coords>>]

\* One evaluation of can_peg_move for an origin inside the grid: the value
\* returned and the grid positions indexed on the way, in order.
can_peg_move_run(b, row_index, column_index, direction) ==
    LET co == generate_jump_and_target_coords(row_index, column_index, direction)
        origin == <<row_index, column_index>>
        jump_coords == co[1]
        target_coords == co[2]
    IN  IF \/ target_coords[1] < 0
           \/ target_coords[1] >= BOARD_ROWS
           \/ target_coords[2] < 0
           \/ target_coords[2] >= BOARD_COLUMNS
        THEN [ret |-> FALSE, reads |-> <<>>]
        ELSE IF ~b[origin].is_valid_position \/ ~b[origin].peg_present
        THEN [ret |-> FALSE, reads |-> <<origin>>]
        ELSE IF ~b[jump_coords].is_valid_position \/ ~b[jump_coords].peg_present
        THEN [ret |-> FALSE, reads |-> <<origin, jump_coords>>]
        ELSE IF ~b[target_coords].is_valid_position \/ ~b[target_coords].is_empty
        THEN [ret |-> FALSE, reads |-> <<origin, jump_coords, target_coords>>]
        ELSE [ret |-> TRUE, reads |-> <<origin, jump_coords, target_coords>>]

can_peg_move(b, row_index, column_index, direction) ==
    can_peg_move_run(b, row_index, column_index, direction).ret

----------------------------------------------------------------------------
(* Board mutation.  A Board value is [board, num_pegs, moves]; a call      *)
(* returns the Board it leaves behind and err, the exception it raised     *)
(* ("none" when it returned normally).                                     *)

\* list indexing: -n .. -1 count from the end, anything else outside
\* 0 .. n-1 raises IndexError
PyIndex(i, n) == IF i < 0 THEN i + n ELSE i

IndexOk(rc) ==
    /\ rc[1] >= -BOARD_ROWS /\ rc[1] < BOARD_ROWS
    /\ rc[2] >= -BOARD_COLUMNS /\ rc[2] < BOARD_COLUMNS

\* self.board[r][c].remove_peg() / .add_peg() on a partly updated grid;
\* nothing more is done once an exception is in flight
CellCall(s, rc, method) ==
    IF s.err # "none" THEN s
    ELSE IF ~IndexOk(rc) THEN [s EXCEPT !.err = "IndexError"]
    ELSE LET at == <<PyIndex(rc[1], BOARD_ROWS), PyIndex(rc[2], BOARD_COLUMNS)>>
             r == IF method = "add_peg" THEN add_peg(s.board[at])
                  ELSE remove_peg(s.board[at])
         IN  [board |-> [s.board EXCEPT ![at] = r.cell], err |-> r.err]

\* make_move that leaves the jumped peg on the board
make_move_keepjump(B, row_index, column_index, direction) ==
    LET co == generate_jump_and_target_coords(row_index, column_index, direction)
        target_coords == co[2]
        log == Append(B.moves, <<row_index, column_index, co[3]>>)
        s0 == [board |-> B.board, err |-> "none"]
        s1 == CellCall(s0, <<row_index, column_index>>, "remove_peg")
        s3 == CellCall(s1, target_coords, "add_peg")
    IN  [board |-> s3.board,
         num_pegs |-> IF s3.err = "none" THEN B.num_pegs - 1 ELSE B.num_pegs,
         moves |-> log,
         err |-> s3.err]

\* make_move that does not remember the move
make_move_nolog(B, row_index, column_index, direction) ==
    LET co == generate_jump_and_target_coords(row_index, column_index, direction)
        s0 == [board |-> B.board, err |-> "none"]
        s1 == CellCall(s0, <<row_index, column_index>>, "remove_peg")
        s2 == CellCall(s1, co[1], "remove_peg")
        s3 == CellCall(s2, co[2], "add_peg")
    IN  [board |-> s3.board,
         num_pegs |-> IF s3.err = "none" THEN B.num_pegs - 1 ELSE B.num_pegs,
         moves |-> B.moves,
         err |-> s3.err]

make_move(B, row_index, column_index, direction) ==
    LET co == generate_jump_and_target_coords(row_index, column_index, direction)
        jump_coords == co[1]
        target_coords == co[2]
        decoded_direction == co[3]
        log == Append(B.moves, <<row_index, column_index, decoded_direction>>)
        s0 == [board |-> B.board, err |-> "none"]
        s1 == CellCall(s0, <<row_index, column_index>>, "remove_peg")
        s2 == CellCall(s1, jump_coords, "remove_peg")
        s3 == CellCall(s2, target_coords, "add_peg")
    IN  [board |-> s3.board,
         num_pegs |-> IF s3.err = "none" THEN B.num_pegs - 1 ELSE B.num_pegs,
         moves |-> log,
         err |-> s3.err]

\* undo_last_move that returns silently on an empty log
undo_last_move_silent(B) ==
    IF B.moves = <<>>
    THEN [board |-> B.board, num_pegs |-> B.num_pegs, moves |-> B.moves,
          err |-> "none"]
    ELSE LET last == B.moves[Len(B.moves)]
             log == SubSeq(B.moves, 1, Len(B.moves) - 1)
             co == generate_jump_and_target_coords(last[1], last[2], last[3])
             s0 == [board |-> B.board, err |-> "none"]
             s1 == CellCall(s0, <<last[1], last[2]>>, "add_peg")
             s2 == CellCall(s1, co[1], "add_peg")
             s3 == CellCall(s2, co[2], "remove_peg")
         IN  [board |-> s3.board,
              num_pegs |-> IF s3.err = "none" THEN B.num_pegs + 1 ELSE B.num_pegs,
              moves |-> log,
              err |-> s3.err]

\* undo_last_move that does not put the jumped peg back
undo_last_move_nojump(B) ==
    IF B.moves = <<>>
    THEN [board |-> B.board, num_pegs |-> B.num_pegs, moves |-> B.moves,
          err |-> "IndexError"]
    ELSE LET last == B.moves[Len(B.moves)]
             log == SubSeq(B.moves, 1, Len(B.moves) - 1)
             co == generate_jump_and_target_coords(last[1], last[2], last[3])
             s0 == [board |-> B.board, err |-> "none"]
             s1 == CellCall(s0, <<last[1], last[2]>>, "add_peg")
             s3 == CellCall(s1, co[2], "remove_peg")
         IN  [board |-> s3.board,
              num_pegs |-> IF s3.err = "none" THEN B.num_pegs + 1 ELSE B.num_pegs,
              moves |-> log,
              err |-> s3.err]

\* undo_last_move that does not count the restored peg
undo_last_move_nocount(B) ==
    IF B.moves = <<>>
    THEN [board |-> B.board, num_pegs |-> B.num_pegs, moves |-> B.moves,
          err |-> "IndexError"]
    ELSE LET last == B.moves[Len(B.moves)]
             log == SubSeq(B.moves, 1, Len(B.moves) - 1)
             co == generate_jump_and_target_coords(last[1], last[2], last[3])
             s0 == [board |-> B.board, err |-> "none"]
             s1 == CellCall(s0, <<last[1], last[2]>>, "add_peg")
             s2 == CellCall(s1, co[1], "add_peg")
             s3 == CellCall(s2, co[2], "remove_peg")
         IN  [board |-> s3.board, num_pegs |-> B.num_pegs, moves |-> log,
              err |-> s3.err]

undo_last_move(B) ==
    IF B.moves = <<>>
    THEN \* list.pop() on an empty list raises before anything is touched
         [board |-> B.board, num_pegs |-> B.num_pegs, moves |-> B.moves,
          err |-> "IndexError"]
    ELSE LET last == B.moves[Len(B.moves)]
             log == SubSeq(B.moves, 1, Len(B.moves) - 1)
             co == generate_jump_and_target_coords(last[1], last[2], last[3])
             jump_coords == co[1]
             target_coords == co[2]
             s0 == [board |-> B.board, err |-> "none"]
             s1 == CellCall(s0, <<last[1], last[2]>>, "add_peg")
             s2 == CellCall(s1, jump_coords, "add_peg")
             s3 == CellCall(s2, target_coords, "remove_peg")
         IN  [board |-> s3.board,
              num_pegs |-> IF s3.err = "none" THEN B.num_pegs + 1 ELSE B.num_pegs,
              moves |-> log,
              err |-> s3.err]

\* the Board part of a call's result
BoardOf(R) == [board |-> R.board, num_pegs |-> R.num_pegs, moves |-> R.moves]

\* can_peg_move that tries the jump out on the board
can_peg_move_call_trying(B, row_index, column_index, direction) ==
    IF can_peg_move(B.board, row_index, column_index, direction)
    THEN LET R == make_move(B, row_index, column_index, direction)
         IN  [board |-> R.board, num_pegs |-> B.num_pegs, moves |-> B.moves,
              err |-> "none", ret |-> TRUE]
    ELSE [board |-> B.board, num_pegs |-> B.num_pegs, moves |-> B.moves,
          err |-> "none", ret |-> FALSE]

\* board.can_peg_move(r, c, d) as a call: the Board it leaves behind (it
\* assigns to nothing) and the value it returns
can_peg_move_call(B, row_index, column_index, direction) ==
    [board |-> B.board, num_pegs |-> B.num_pegs, moves |-> B.moves,
     err |-> "none",
     ret |-> can_peg_move(B.board, row_index, column_index, direction)]

\* board.get_peg(row_index, column_index): self.board[row_index][column_index]
get_peg(B, row_index, column_index) ==
    IF IndexOk(<<row_index, column_index>>)
    THEN [ret |-> B.board[<<PyIndex(row_index, BOARD_ROWS),
                            PyIndex(column_index, BOARD_COLUMNS)>>],
          err |-> "none"]
    ELSE [ret |-> PegPositionNone, err |-> "IndexError"]

----------------------------------------------------------------------------
(* solver.py: make_next_move                                               *)

NoMove == <<>>

\* a direction loop that makes the move without asking can_peg_move
NextLegalDirection_unchecked(b, row_index, column_index, d) ==
    IF d = None THEN None ELSE d

\* while d is not None: ... d = Direction.get_next_direction(d)
RECURSIVE NextLegalDirection(_, _, _, _)
NextLegalDirection(b, row_index, column_index, d) ==
    IF d = None THEN None
    ELSE IF can_peg_move(b, row_index, column_index, d) THEN d
    ELSE NextLegalDirection(b, row_index, column_index, get_next_direction(d))

\* for d in range(4)
RECURSIVE RangeLegalDirection(_, _, _, _)
RangeLegalDirection(b, row_index, column_index, d) ==
    IF d >= 4 THEN None
    ELSE IF can_peg_move(b, row_index, column_index, d) THEN d
    ELSE RangeLegalDirection(b, row_index, column_index, d + 1)

\* a scan that goes down the columns instead of along the rows
RECURSIVE AdvanceScan_columns(_, _, _)
AdvanceScan_columns(b, row_index, column_index) ==
    IF column_index >= max_columns THEN NoMove
    ELSE IF row_index >= max_rows THEN AdvanceScan_columns(b, 0, column_index + 1)
    ELSE LET d == NextLegalDirection(b, row_index, column_index, UP)
         IN  IF d # None THEN <<row_index, column_index, d>>
             ELSE AdvanceScan_columns(b, row_index + 1, column_index)

\* Advance: the first legal move scanning rows, then columns, then
\* directions, from (row_index, column_index) on
RECURSIVE AdvanceScan(_, _, _)
AdvanceScan(b, row_index, column_index) ==
    IF row_index >= max_rows THEN NoMove
    ELSE IF column_index >= max_columns THEN AdvanceScan(b, row_index + 1, 0)
    ELSE LET d == NextLegalDirection(b, row_index, column_index, UP)
         IN  IF d # None THEN <<row_index, column_index, d>>
             ELSE AdvanceScan(b, row_index, column_index + 1)

\* a row-skip test that is true only past the last row
RowSkip_past(row_index, column_index) ==
    (row_index = max_rows) /\ (column_index + 1 <= max_columns)

\* the test that ends the column loop of the forward scan
RowSkip(row_index, column_index) ==
    (row_index + 1 = max_rows) /\ (column_index + 1 <= max_columns)

\* a forward scan that starts over at the first cell of the board
ForwardScan_restart(b, last_row, last_column, row_index, column_index) ==
    AdvanceScan(b, 0, 0)

\* a forward scan without the continue: it looks again at the cells of the
\* reverted move's row up to its column
RECURSIVE ForwardScan_noskip(_, _, _, _, _)
ForwardScan_noskip(b, last_row, last_column, row_index, column_index) ==
    IF row_index >= max_rows THEN NoMove
    ELSE IF column_index >= max_columns
    THEN ForwardScan_noskip(b, last_row, last_column, row_index + 1, 0)
    ELSE IF RowSkip(row_index, column_index)
    THEN ForwardScan_noskip(b, last_row, last_column, row_index + 1, 0)
    ELSE LET d == RangeLegalDirection(b, row_index, column_index, 0)
         IN  IF d # None THEN <<row_index, column_index, d>>
             ELSE ForwardScan_noskip(b, last_row, last_column, row_index, column_index + 1)

\* Backtrack: the scan for a move 'after' the reverted one
RECURSIVE ForwardScan(_, _, _, _, _)
ForwardScan(b, last_row, last_column, row_index, column_index) ==
    IF row_index >= max_rows THEN NoMove
    ELSE IF column_index >= max_columns
    THEN ForwardScan(b, last_row, last_column, row_index + 1, 0)
    ELSE IF RowSkip(row_index, column_index)
    THEN \* break: the rest of this row is not looked at
         ForwardScan(b, last_row, last_column, row_index + 1, 0)
    ELSE IF (row_index = last_row) /\ (column_index <= last_column)
    THEN \* continue
         ForwardScan(b, last_row, last_column, row_index, column_index + 1)
    ELSE LET d == RangeLegalDirection(b, row_index, column_index, 0)
         IN  IF d # None THEN <<row_index, column_index, d>>
             ELSE ForwardScan(b, last_row, last_column, row_index, column_index + 1)

\* the cells whose directions the forward scan tests when it finds no move
RECURSIVE ForwardScanCells(_, _, _, _)
ForwardScanCells(last_row, last_column, row_index, column_index) ==
    IF row_index >= max_rows THEN {}
    ELSE IF column_index >= max_columns
    THEN ForwardScanCells(last_row, last_column, row_index + 1, 0)
    ELSE IF RowSkip(row_index, column_index)
    THEN ForwardScanCells(last_row, last_column, row_index + 1, 0)
    ELSE IF (row_index = last_row) /\ (column_index <= last_column)
    THEN ForwardScanCells(last_row, last_column, row_index, column_index + 1)
    ELSE {<<row_index, column_index>>}
         \cup ForwardScanCells(last_row, last_column, row_index, column_index + 1)

\* the result of make_next_move after board.make_move(...); return True
Moved(R, n) ==
    [board |-> R.board, num_pegs |-> R.num_pegs, moves |-> R.moves, err |-> R.err,
     ret |-> IF R.err = "none" THEN "True" ELSE "raise", undone |-> n]

\* while len(board.moves) != 0: ...; n counts the moves reverted so far
RECURSIVE Backtrack(_, _)
Backtrack(B, n) ==
    IF Len(B.moves) = 0
    THEN [board |-> B.board, num_pegs |-> B.num_pegs, moves |-> B.moves,
          err |-> "none", ret |-> "False", undone |-> n]
    ELSE LET last == B.moves[Len(B.moves)]
             last_row == last[1]
             last_column == last[2]
             last_direction == last[3]
             U == undo_last_move(B)
             next_direction == NextLegalDirection(U.board, last_row, last_column,
                                                  get_next_direction(last_direction))
             after == ForwardScan(U.board, last_row, last_column, last_row, 0)
         IN  IF U.err # "none"
             THEN [board |-> U.board, num_pegs |-> U.num_pegs, moves |-> U.moves,
                   err |-> U.err, ret |-> "raise", undone |-> n]
             ELSE IF next_direction # None
             THEN Moved(make_move(BoardOf(U), last_row, last_column, next_direction), n + 1)
             ELSE IF after # NoMove
             THEN Moved(make_move(BoardOf(U), after[1], after[2], after[3]), n + 1)
             ELSE Backtrack(BoardOf(U), n + 1)

make_next_move(B) ==
    LET first == AdvanceScan(B.board, 0, 0)
    IN  IF first # NoMove
        THEN Moved(make_move(B, first[1], first[2], first[3]), 0)
        ELSE Backtrack(B, 0)

\* a loop that stops one peg early
LoopCondition_early(n) == n > 2

\* get_any_solution: while board.num_pegs != 1
LoopCondition(n) == n # 1

----------------------------------------------------------------------------
(* Starting boards                                                         *)

Holes == {rc \in Coords : InCross(rc)}

\* row-major order of the scans
Before(a, b) == (a[1] < b[1]) \/ (a[1] = b[1] /\ a[2] < b[2])

StartHoles ==
    {rc \in Holes : Cardinality({h \in Holes : Before(rc, h)}) < StartHoleCount}

RECURSIVE PegSetsUpTo(_)
PegSetsUpTo(k) ==
    IF k = 0 THEN {{}}
    ELSE LET S == PegSetsUpTo(k - 1)
         IN  S \cup {s \cup {h} : s \in S, h \in StartHoles}

\* boards set up with a few pegs (at least one: no jump removes the last
\* peg, so a Board without pegs is never reached)
HandedBoards == {board_with_pegs(P) : P \in {Q \in PegSetsUpTo(MaxStartPegs) : Q # {}}}

----------------------------------------------------------------------------
(* The state machine                                                       *)

\* the Board object as it is now
Cur == [board |-> board, num_pegs |-> num_pegs, moves |-> moves]

\* the last two direct calls, oldest first
Record(h, e) == IF Len(h) < 2 THEN Append(h, e) ELSE <<h[2], e>>

\* b = Board()
InitFresh ==
    /\ board = generate_board
    /\ pc = "idle"

\* a Board set up by the caller and handed to get_any_solution
InitHanded ==
    /\ board \in HandedBoards
    /\ pc = "solving"

Init ==
    /\ (InitFresh \/ InitHanded)
    /\ initial = board
    /\ num_pegs = count_pegs(board)
    /\ moves = <<>>
    /\ err = "none"
    /\ ret = "none"
    /\ result = <<>>
    /\ hist = <<>>
    /\ steps = 0
    /\ undone = 0
    /\ before = <<>>
    /\ logs = <<>>
    /\ probe = <<>>

\* board.make_move(r, c, d), for a move that can_peg_move accepts
MakeMove(r, c, d) ==
    /\ pc = "idle"
    /\ Len(moves) < MaxDepth
    /\ can_peg_move(board, r, c, d)
    /\ \E R \in {make_move(Cur, r, c, d)} :
           /\ board' = R.board
           /\ num_pegs' = R.num_pegs
           /\ moves' = R.moves
           /\ err' = R.err
    /\ hist' = Record(hist, [op |-> "make_move", arg |-> <<r, c, d>>, pre |-> Cur])
    /\ UNCHANGED <<pc, ret, result, initial, steps, undone, before, logs, probe>>

\* board.undo_last_move() with something to revert
UndoLastMove ==
    /\ pc = "idle"
    /\ moves # <<>>
    /\ \E R \in {undo_last_move(Cur)} :
           /\ board' = R.board
           /\ num_pegs' = R.num_pegs
           /\ moves' = R.moves
           /\ err' = R.err
    /\ hist' = Record(hist, [op |-> "undo_last_move", arg |-> moves[Len(moves)], pre |-> Cur])
    /\ UNCHANGED <<pc, ret, result, initial, steps, undone, before, logs, probe>>

\* board.undo_last_move() with an empty log
UndoEmptyLog ==
    /\ pc = "idle"
    /\ moves = <<>>
    /\ \E R \in {undo_last_move(Cur)} :
           /\ board' = R.board
           /\ num_pegs' = R.num_pegs
           /\ moves' = R.moves
           /\ err' = R.err
    /\ hist' = Record(hist, [op |-> "undo_last_move", arg |-> NoMove, pre |-> Cur])
    /\ UNCHANGED <<pc, ret, result, initial, steps, undone, before, logs, probe>>

\* get_any_solution(board) is entered, on a Board whose log is empty
SolveCall ==
    /\ pc = "idle"
    /\ moves = <<>>
    /\ pc' = "solving"
    /\ err' = "none"
    /\ hist' = <<>>
    /\ UNCHANGED <<board, num_pegs, moves, ret, result, initial, steps, undone,
                   before, logs, probe>>

\* one iteration of the loop in which make_next_move returns True
SolveStep ==
    /\ pc = "solving"
    /\ LoopCondition(num_pegs)
    /\ steps < MaxSteps
    /\ \E R \in {make_next_move(Cur)} :
           /\ R.ret # "False"
           /\ board' = R.board
           /\ num_pegs' = R.num_pegs
           /\ moves' = R.moves
           /\ err' = R.err
           /\ ret' = R.ret
           /\ undone' = undone + R.undone
           /\ logs' = Append(logs, R.moves)
           /\ pc' = IF R.ret = "True" THEN "solving" ELSE "raised"
    /\ steps' = steps + 1
    /\ before' = Cur
    /\ UNCHANGED <<result, initial, hist, probe>>

\* the iteration in which make_next_move returns False:
\* raise ValueError("No solutions found!")
SolveRaise ==
    /\ pc = "solving"
    /\ LoopCondition(num_pegs)
    /\ steps < MaxSteps
    /\ \E R \in {make_next_move(Cur)} :
           /\ R.ret = "False"
           /\ board' = R.board
           /\ num_pegs' = R.num_pegs
           /\ moves' = R.moves
           /\ ret' = R.ret
           /\ undone' = undone + R.undone
           /\ logs' = Append(logs, R.moves)
    /\ err' = "NoSolutionFound"
    /\ pc' = "raised"
    /\ steps' = steps + 1
    /\ before' = Cur
    /\ UNCHANGED <<result, initial, hist, probe>>

\* the loop ends: return board.moves
SolveReturn ==
    /\ pc = "solving"
    /\ ~LoopCondition(num_pegs)
    /\ pc' = "returned"
    /\ result' = moves
    /\ UNCHANGED <<board, num_pegs, moves, err, ret, initial, hist, steps, undone,
                   before, logs, probe>>

\* the Boards that at most k legal make_move calls make of Board()
RECURSIVE BoardsWithin(_)
BoardsWithin(k) ==
    IF k = 0
    THEN {[board |-> generate_board, num_pegs |-> count_pegs(generate_board),
           moves |-> <<>>]}
    ELSE LET S == BoardsWithin(k - 1)
             jumps == {x \in S \X Rows \X Columns \X Direction :
                          can_peg_move(x[1].board, x[2], x[3], x[4])}
         IN  S \cup {BoardOf(make_move(x[1], x[2], x[3], x[4])) : x \in jumps}

\* indices handed to get_peg: the grid and a margin around it
ProbeIndex == (0 - BOARD_ROWS - 1) .. BOARD_ROWS

\* a Board some moves into a game, about to be asked questions
InitProbe ==
    /\ \E B \in BoardsWithin(MaxProbeDepth) :
          /\ board = B.board
          /\ num_pegs = B.num_pegs
          /\ moves = B.moves
    /\ initial = generate_board
    /\ pc = "idle"
    /\ err = "none"
    /\ ret = "none"
    /\ result = <<>>
    /\ hist = <<>>
    /\ steps = 0
    /\ undone = 0
    /\ before = <<>>
    /\ logs = <<>>
    /\ probe = <<>>

\* board.can_peg_move(r, c, d); after the first call, the same call again
CanPegMoveCall(r, c, d) ==
    /\ pc = "idle"
    /\ IF probe = <<>> THEN TRUE
       ELSE /\ probe[1].op = "can_peg_move"
            /\ probe[1].arg = <<r, c, d>>
            /\ probe[1].n < MaxCalls
    /\ \E R \in {can_peg_move_call(Cur, r, c, d)} :
           /\ board' = R.board
           /\ num_pegs' = R.num_pegs
           /\ moves' = R.moves
           /\ err' = R.err
           /\ probe' = <<[op |-> "can_peg_move", arg |-> <<r, c, d>>, ret |-> R.ret,
                          err |-> R.err,
                          n |-> IF probe = <<>> THEN 1 ELSE probe[1].n + 1]>>
    /\ UNCHANGED <<pc, ret, result, initial, hist, steps, undone, before, logs>>

\* board.get_peg(row_index, column_index)
GetPegCall(row_index, column_index) ==
    /\ pc = "idle"
    /\ probe = <<>>
    /\ \E R \in {get_peg(Cur, row_index, column_index)} :
           /\ err' = R.err
           /\ probe' = <<[op |-> "get_peg", arg |-> <<row_index, column_index>>,
                          ret |-> R.ret, err |-> R.err, n |-> 1]>>
    /\ UNCHANGED <<board, num_pegs, moves, pc, ret, result, initial, hist, steps,
                   undone, before, logs>>

NextProbe ==
    \/ \E r \in Rows, c \in Columns, d \in Direction : CanPegMoveCall(r, c, d)
    \/ \E row_index \in ProbeIndex, column_index \in ProbeIndex :
          GetPegCall(row_index, column_index)

SpecProbe == InitProbe /\ [][NextProbe]_vars

\* get_any_solution(board) running on a Board handed to it, and nothing else
InitSolve ==
    /\ Init
    /\ pc = "solving"

NextSolve ==
    \/ SolveStep
    \/ SolveRaise
    \/ SolveReturn

\* the loop of get_any_solution has another turn to take: it has not
\* returned or raised, and the step bound leaves room for a make_next_move
Running == pc = "solving" /\ (LoopCondition(num_pegs) => steps < MaxSteps)

\* a turn of the loop as pc and steps show it: make_next_move gives an
\* outcome for every Board, so a turn is possible in every Running state
Turn ==
    /\ Running
    /\ IF LoopCondition(num_pegs)
       THEN steps' = steps + 1 /\ pc' \in {"solving", "raised"}
       ELSE steps' = steps /\ pc' = "returned"

\* the interpreter keeps executing the loop: a turn that stays possible is taken
SpecSolve == InitSolve /\ [][NextSolve]_vars /\ WF_<<pc, steps>>(Turn)

Next ==
    \/ \E r \in Rows, c \in Columns, d \in Direction : MakeMove(r, c, d)
    \/ UndoLastMove
    \/ UndoEmptyLog
    \/ SolveCall
    \/ SolveStep
    \/ SolveRaise
    \/ SolveReturn

Spec == Init /\ [][Next]_vars

----------------------------------------------------------------------------
(* Vocabulary of the properties                                            *)

\* the three cell states of the data model, read off the three flags
CellState(p) ==
    IF ~p.is_valid_position THEN "Invalid"
    ELSE IF p.peg_present /\ ~p.is_empty THEN "Occupied"
    ELSE IF ~p.peg_present /\ p.is_empty THEN "Empty"
    ELSE "Inconsistent"

Occupied(b) == {rc \in Coords : CellState(b[rc]) = "Occupied"}

InGrid(rc) == rc[1] \in Rows /\ rc[2] \in Columns

\* the last direct call on the Board
LastCall == hist[Len(hist)]

\* the cells a move touches
Touched(m) ==
    LET co == generate_jump_and_target_coords(m[1], m[2], m[3])
    IN  {<<m[1], m[2]>>, co[1], co[2]}

\* C1: the solve loop ends in one of two ways only: it returns board.moves
\* with exactly one peg left, or it raises "No solutions found!" after a
\* step that returned False, with the log empty and more than one peg.
C1_SolveOutcomes ==
    /\ pc \in {"idle", "solving", "returned", "raised"}
    /\ (pc = "returned") => (num_pegs = 1 /\ result = moves /\ err = "none")
    /\ (pc = "raised") =>
          (ret = "False" /\ err = "NoSolutionFound" /\ moves = <<>> /\ num_pegs > 1)

\* a run that had to revert moves and still ended with one peg
C1_Witness ==
    /\ pc = "returned"
    /\ undone > 0
    /\ num_pegs = 1
    /\ Len(result) > 1

\* C3: make_move of a legal move directly followed by undo_last_move leaves
\* every cell, num_pegs and the log exactly as they were before the move.
C3_RoundTrip ==
    (/\ Len(hist) = 2
     /\ hist[1].op = "make_move"
     /\ hist[2].op = "undo_last_move"
     /\ hist[2].arg # NoMove)
    => (Cur = hist[1].pre /\ err = "none")

\* a move made on top of a non-empty log and taken back
C3_Witness ==
    /\ Len(hist) = 2
    /\ hist[1].op = "make_move"
    /\ hist[2].op = "undo_last_move"
    /\ hist[2].arg = hist[1].arg
    /\ moves # <<>>
    /\ Cur = hist[1].pre

\* C4: num_pegs is the number of Occupied cells of the grid.
C4_PegCount == num_pegs = Cardinality(Occupied(board))

\* the search has reverted moves and is some moves deep
C4_Witness ==
    /\ pc = "solving"
    /\ undone > 0
    /\ moves # <<>>
    /\ num_pegs = Cardinality(Occupied(board))

\* C5: the log is as long as the number of pegs removed since the start.
C5_LogCount == Len(moves) = Cardinality(Occupied(initial)) - num_pegs

\* between two steps of a search that went down, back up and down again
C5_Witness ==
    /\ pc = "solving"
    /\ undone > 1
    /\ Len(moves) >= 2
    /\ Len(moves) = Cardinality(Occupied(initial)) - num_pegs

\* C6: make_move(r, c, d) empties origin and jump, fills target, takes one
\* off num_pegs and appends (r, c, d) to the log; undo_last_move adds one to
\* num_pegs and drops the last log entry only; no other cell changes.
C6_Effect ==
    (hist # <<>> /\ LastCall.arg # NoMove) =>
        LET pre == LastCall.pre
            m == LastCall.arg
            co == generate_jump_and_target_coords(m[1], m[2], m[3])
        IN  /\ \A rc \in Coords \ Touched(m) : board[rc] = pre.board[rc]
            /\ (LastCall.op = "make_move") =>
                  /\ CellState(board[<<m[1], m[2]>>]) = "Empty"
                  /\ CellState(board[co[1]]) = "Empty"
                  /\ CellState(board[co[2]]) = "Occupied"
                  /\ num_pegs = pre.num_pegs - 1
                  /\ moves = Append(pre.moves, m)
            /\ (LastCall.op = "undo_last_move") =>
                  /\ num_pegs = pre.num_pegs + 1
                  /\ Len(moves) = Len(pre.moves) - 1
                  /\ \A i \in 1 .. Len(moves) : moves[i] = pre.moves[i]

\* a move appended to a log that already holds one
C6_Witness ==
    /\ hist # <<>>
    /\ LastCall.op = "make_move"
    /\ Len(moves) >= 2
    /\ moves[Len(moves)] = LastCall.arg
    /\ num_pegs = LastCall.pre.num_pegs - 1

\* C7: for an origin inside the grid, can_peg_move is true exactly when the
\* target is inside the grid and Empty, and origin and jump are Occupied;
\* with the target outside the grid it is false and the grid is not indexed.
C7_LegalIff ==
    \A r \in Rows, c \in Columns, d \in Direction :
        LET run == can_peg_move_run(board, r, c, d)
            co == generate_jump_and_target_coords(r, c, d)
        IN  /\ run.ret = (/\ InGrid(co[2])
                          /\ CellState(board[co[2]]) = "Empty"
                          /\ CellState(board[<<r, c>>]) = "Occupied"
                          /\ CellState(board[co[1]]) = "Occupied")
            /\ ~InGrid(co[2]) => (run.ret = FALSE /\ run.reads = <<>>)

\* after some moves: one jump is legal, and a peg with a peg next to it
\* cannot jump only because the target is off the grid
C7_Witness ==
    /\ moves # <<>>
    /\ \E r \in Rows, c \in Columns, d \in Direction :
          can_peg_move(board, r, c, d)
    /\ \E r \in Rows, c \in Columns, d \in Direction :
          LET co == generate_jump_and_target_coords(r, c, d)
          IN  /\ ~InGrid(co[2])
              /\ InGrid(co[1])
              /\ CellState(board[<<r, c>>]) = "Occupied"
              /\ CellState(board[co[1]]) = "Occupied"
              /\ ~can_peg_move(board, r, c, d)

\* the board after the jump (r, c, d)
Jump(b, r, c, d) == make_move([board |-> b, num_pegs |-> 0, moves |-> <<>>], r, c, d).board

\* some sequence of legal jumps from b ends with exactly one peg
RECURSIVE Solvable(_)
Solvable(b) ==
    \/ Cardinality(Occupied(b)) = 1
    \/ \E r \in Rows, c \in Columns, d \in Direction :
          can_peg_move(b, r, c, d) /\ Solvable(Jump(b, r, c, d))

\* C9: when the solve loop raises "No solutions found!", no sequence of
\* legal jumps from the starting board ends with exactly one peg.
C9_ExhaustedMeansUnsolvable == (pc = "raised") => ~Solvable(initial)

\* C10: undo_last_move on an empty log raises and changes nothing.
C10_UndoEmpty ==
    (hist # <<>> /\ LastCall.op = "undo_last_move" /\ LastCall.arg = NoMove) =>
        (err = "IndexError" /\ Cur = LastCall.pre /\ moves = <<>>)

\* the call that took back the only move, then one call too many
C10_Witness ==
    /\ Len(hist) = 2
    /\ hist[1].op = "undo_last_move"
    /\ hist[1].arg # NoMove
    /\ hist[2].op = "undo_last_move"
    /\ hist[2].arg = NoMove
    /\ err = "IndexError"

\* C11: can_peg_move changes no cell, not num_pegs and not the log, and
\* called again with the same arguments on the same Board it returns the
\* same value.
C11_Purity ==
    [][(probe' # probe /\ probe'[1].op = "can_peg_move") =>
          /\ board' = board
          /\ num_pegs' = num_pegs
          /\ moves' = moves
          /\ (probe # <<>>) =>
                (probe'[1].arg = probe[1].arg /\ probe'[1].ret = probe[1].ret)]_vars

\* a legal jump, asked about twice, some moves into a game
C11_Witness ==
    /\ probe # <<>>
    /\ probe[1].op = "can_peg_move"
    /\ probe[1].n = 2
    /\ probe[1].ret = TRUE
    /\ moves # <<>>
    /\ can_peg_move(board, probe[1].arg[1], probe[1].arg[2], probe[1].arg[3])

\* C12: get_peg fails exactly for the index pairs outside the grid
\* (row < 0, row >= 7, col < 0 or col >= 7) and returns a cell otherwise.
C12_OutOfBounds ==
    (probe # <<>> /\ probe[1].op = "get_peg") =>
        ((probe[1].err # "none") <=> ~InGrid(probe[1].arg))

----------------------------------------------------------------------------
(* Vocabulary of the search properties                                     *)

AllMoves == Rows \X Columns \X Direction

LegalMoves(b) == {m \in AllMoves : can_peg_move(b, m[1], m[2], m[3])}

\* the exploration order: rows, then columns, then Up < Right < Down < Left
MoveBefore(m, n) ==
    \/ m[1] < n[1]
    \/ m[1] = n[1] /\ m[2] < n[2]
    \/ m[1] = n[1] /\ m[2] = n[2] /\ m[3] < n[3]

\* the first of a non-empty set of moves in that order
FirstOf(S) == CHOOSE m \in S : \A n \in S : n = m \/ MoveBefore(m, n)

\* the last step of the search did not just append a move: it reverted some
SteppedBack == before # <<>> /\ Len(moves) <= Len(before.moves)

\* C13: when some move is legal, a step applies the first legal move in the
\* order rows 0..6, columns 0..6, Up, Right, Down, Left, and only that move;
\* it reverts moves only when no move is legal anywhere on the board.
C13_Advance ==
    (before # <<>>) =>
        LET legal == LegalMoves(before.board)
        IN  IF legal # {}
            THEN LET m == FirstOf(legal)
                 IN  /\ moves = Append(before.moves, m)
                     /\ Occupied(board) =
                           (Occupied(before.board) \ Touched(m))
                              \cup {generate_jump_and_target_coords(m[1], m[2], m[3])[2]}
                     /\ num_pegs = before.num_pegs - 1
            ELSE SteppedBack

\* a step that had several legal moves to choose from, after a backtrack
C13_Witness ==
    /\ before # <<>>
    /\ undone > 0
    /\ Cardinality(LegalMoves(before.board)) >= 2
    /\ moves = Append(before.moves, FirstOf(LegalMoves(before.board)))

\* the move the stated Backtrack rule applies after reverting (r, c, d) on
\* board b, or NoMove
StatedAlternative(b, p) ==
    LET later == {m \in LegalMoves(b) : m[1] = p[1] /\ m[2] = p[2] /\ m[3] > p[3]}
        after == {m \in LegalMoves(b) :
                     m[1] > p[1] \/ (m[1] = p[1] /\ m[2] > p[2])}
    IN  IF later # {} THEN FirstOf(later)
        ELSE IF after # {} THEN FirstOf(after)
        ELSE NoMove

\* the log the stated Backtrack rule leaves
RECURSIVE StatedBacktrack(_)
StatedBacktrack(B) ==
    IF B.moves = <<>> THEN <<>>
    ELSE LET p == B.moves[Len(B.moves)]
             U == undo_last_move(B)
             m == StatedAlternative(U.board, p)
         IN  IF m # NoMove THEN Append(U.moves, m)
             ELSE StatedBacktrack(BoardOf(U))

\* C14: a step that finds no legal move pops the last move (r, c, d) and
\* applies the first legal later direction at (r, c), else the first legal
\* move of the cells after (r, c) in rows r..6, and pops the next-older move
\* only if there is neither.
C14_Backtrack ==
    (before # <<>> /\ LegalMoves(before.board) = {}) =>
        moves = StatedBacktrack(before)

\* the moves the last step popped, newest first down to the level it stopped at
Popped ==
    IF ~SteppedBack THEN {}
    ELSE {before.moves[i] : i \in (IF moves = <<>> THEN 1 ELSE Len(moves))
                                    .. Len(before.moves)}

C16_OnlyLegal ==
    (pc # "idle") =>
        /\ err \in {"none", "NoSolutionFound"}
        /\ ret # "raise"
        /\ (before # <<>> /\ ret = "True") =>
              LET m == moves[Len(moves)]
                  U == undo_last_move(Cur)
              IN  /\ U.err = "none"
                  /\ can_peg_move(U.board, m[1], m[2], m[3])

\* a move applied in place of a reverted one
C16_Witness ==
    /\ pc = "solving"
    /\ SteppedBack
    /\ ret = "True"
    /\ err = "none"
    /\ LET m == moves[Len(moves)]
       IN  can_peg_move(undo_last_move(Cur).board, m[1], m[2], m[3])

\* the log replayed from board b, with the legality of each move checked
RECURSIVE Replay(_, _, _)
Replay(b, log, i) ==
    IF i > Len(log) THEN [ok |-> TRUE, board |-> b]
    ELSE IF can_peg_move(b, log[i][1], log[i][2], log[i][3])
    THEN Replay(Jump(b, log[i][1], log[i][2], log[i][3]), log, i + 1)
    ELSE [ok |-> FALSE, board |-> b]

\* C17: between the steps of a run the board is the starting layout with
\* the moves of the log applied in order, each legal when replayed; the
\* returned sequence replays to a board with one peg.
C17_LogReplays ==
    (pc # "idle") =>
        LET R == Replay(initial, moves, 1)
        IN  /\ R.ok
            /\ R.board = board
            /\ (pc = "returned") =>
                  (result = moves /\ Cardinality(Occupied(R.board)) = 1)

\* a solution found after reverting moves
C17_Witness ==
    /\ pc = "returned"
    /\ undone > 0
    /\ Len(result) >= 2
    /\ Replay(initial, result, 1).ok
    /\ Cardinality(Occupied(Replay(initial, result, 1).board)) = 1

\* log a comes before log b: a is a proper prefix of b, or at the first
\* position where they differ a has the earlier move
LogBefore(a, b) ==
    \E k \in 1 .. Len(b) :
        /\ \A i \in 1 .. (k - 1) : i <= Len(a) /\ a[i] = b[i]
        /\ \/ k = Len(a) + 1
           \/ k <= Len(a) /\ MoveBefore(a[k], b[k])

\* C19: the logs seen after the steps of one run are all different, and the
\* log after a step that applied a move comes after the log of every
\* earlier step.
C19_LogsIncrease ==
    \A i \in 1 .. Len(logs), j \in 1 .. Len(logs) :
        (i < j) =>
            /\ logs[i] # logs[j]
            /\ (logs[j] # <<>>) => LogBefore(logs[i], logs[j])

\* a run that went down, back and down again
C19_Witness ==
    /\ Len(logs) >= 4
    /\ undone > 0
    /\ logs[Len(logs)] # <<>>
    /\ \E i \in 1 .. Len(logs) - 1 : Len(logs[i]) >= Len(logs[Len(logs)])
    /\ LogBefore(logs[1], logs[Len(logs)])

\* the four 2x2 blocks in the corners of the grid
Corners ==
    {rc \in Coords : rc[1] \in {0, 1, BOARD_ROWS - 2, BOARD_ROWS - 1}
                     /\ rc[2] \in {0, 1, BOARD_COLUMNS - 2, BOARD_COLUMNS - 1}}

\* C20: the Invalid cells are the four corner blocks and stay so; an Invalid
\* cell has neither flag set, a Valid cell has exactly one of peg_present
\* and is_empty set.
C20_CellStates ==
    /\ {rc \in Coords : ~board[rc].is_valid_position} = Corners
    /\ \A rc \in Corners : board[rc] = initial[rc]
    /\ \A rc \in Corners : ~board[rc].peg_present /\ ~board[rc].is_empty
    /\ \A rc \in Coords \ Corners : board[rc].peg_present # board[rc].is_empty

\* after pegs were removed and put back
C20_Witness ==
    /\ undone > 0
    /\ moves # <<>>
    /\ \E rc \in Coords \ Corners : board[rc] # initial[rc]
    /\ {rc \in Coords : ~board[rc].is_valid_position} = Corners

\* C18: from any starting board with an empty log, the solve loop ends
\* after finitely many steps, with one peg left or with exhaustion reported.
C18_Terminates == <>(pc \in {"returned", "raised"})

\* a run that ended after going back several times
C18_Witness ==
    /\ pc \in {"returned", "raised"}
    /\ steps >= 4
    /\ undone >= 2
    /\ steps < MaxSteps

====
